---- MODULE Spec2Model ----
(***************************************************************************)
(* ts2mp4: conversion of a transport stream into an MP4 file, verification *)
(* of the copied streams, and the selective audio repair.                  *)
(*                                                                         *)
(* A file is a record [tag, run, streams]; a stream is a record            *)
(* [type, channels, codec, dg] where dg stands for the MD5 digest of the   *)
(* decoded stream.  Stream indices are 0-based as in the program; the      *)
(* stream with index i is element i+1 of the sequence.                     *)
(***************************************************************************)
EXTENDS Integers, Sequences, FiniteSets, TLC

\* ------------------------------------------------------------ bounds
MaxStreams == 3
MaxTouch == 1
MaxRuns == 2
MaxFfmpegCalls == 4
MaxCvfStreams == 2
MaxDigest == 3

VARIABLES
    orig,           \* streams of the input .ts file
    inVer,          \* stat (mtime, size) of the input, counted from process start
    part,           \* file at output_path (<input>.mp4.part)
    temp,           \* file at output_path + ".temp"
    mp4,            \* file at <input>.mp4
    runs,           \* number of the current process invocation
    pc,             \* position of the current invocation
    exitCode,       \* -1 while running, else the exit status
    err,            \* class of the exception that ended the run
    miCache,        \* keys <<file, version>> of _get_media_info_cached
    sources,        \* stream_sources of the first pass
    plan,           \* stream_sources of the repair pass
    ffmpegCalls,    \* conversion invocations of execute_ffmpeg in this run
    plannerCalls,   \* calls of re_encode_mismatched_audio_streams in this run
    initExit,       \* return code of the first-pass transcoder (-1: not run)
    repairExit,     \* return code of the repair transcoder (-1: not run)
    verifyResult,   \* outcome of the first-pass verify_streams
    plannerResult,  \* "NONE", "PLAN", or the error the planner raised
    reverifyResult, \* outcome of verify_copied_streams on the repaired file
    replaced,       \* temp_output_file.replace(output_path) has succeeded
    hashed,         \* files of which a stream has been hashed in this run
    warned,         \* the except clause logged a warning and went on
    call            \* arguments and result of a directly called operation

vars == <<orig, inVer, part, temp, mp4, runs, pc, exitCode, err, miCache,
          sources, plan, ffmpegCalls, plannerCalls, initExit, repairExit,
          verifyResult, plannerResult, reverifyResult, replaced, hashed,
          warned, call>>

fsVars == <<part, temp, mp4>>
histVars == <<ffmpegCalls, plannerCalls, initExit, repairExit, verifyResult,
              plannerResult, reverifyResult, replaced, hashed, warned>>

\* ------------------------------------------------------------ data
VideoKind == [type |-> "video", channels |-> 0, codec |-> "mpeg2video"]
AacKind   == [type |-> "audio", channels |-> 2, codec |-> "aac"]
Mp2Kind   == [type |-> "audio", channels |-> 2, codec |-> "mp2"]
Aac0Kind  == [type |-> "audio", channels |-> 0, codec |-> "aac"]
StreamKinds == {VideoKind, AacKind, Mp2Kind, Aac0Kind}

\* The input files: stream p (index p-1) has a digest of its own.
WithDigests(ks) ==
    [p \in DOMAIN ks |->
        [type |-> ks[p].type, channels |-> ks[p].channels,
         codec |-> ks[p].codec, dg |-> p]]

InputFiles ==
    UNION {{WithDigests(ks) : ks \in [1..n -> StreamKinds]} : n \in 1..MaxStreams}

Absent  == [tag |-> "absent", run |-> 0, streams |-> <<>>]
Partial == [tag |-> "partial", run |-> 0, streams |-> <<>>]

SetToSortedSeq(S) ==
    CHOOSE s \in [1..Cardinality(S) -> S] :
        \A i, j \in 1..Cardinality(S) : i < j => s[i] < s[j]

Positions(streams, type) == {p \in DOMAIN streams : streams[p].type = type}

StreamsOfType(streams, type) ==
    LET ps == SetToSortedSeq(Positions(streams, type))
    IN  [k \in DOMAIN ps |-> streams[ps[k]]]

\* ------------------------------------------------------------ exceptions
\* NotImplementedError is a subclass of RuntimeError; StreamIntegrityError and
\* FFmpegProcessError derive from Exception; FileNotFoundError from OSError;
\* pydantic's ValidationError from ValueError.
IsRuntimeError(e) == e \in {"RuntimeError", "NotImplementedError"}

\* ------------------------------------------------------------ VideoFile
_is_valid_audio_stream(stream) == stream.channels > 0

valid_streams(streams) ==
    {p \in DOMAIN streams :
        \/ streams[p].type = "video"
        \/ streams[p].type = "audio" /\ _is_valid_audio_stream(streams[p])}

\* ------------------------------------------------------------ first pass
\* A stream source: the 0-based index of the source stream, its type and the
\* conversion type.
_build_stream_sources(streams) ==
    LET ps == SetToSortedSeq(valid_streams(streams))
    IN  [k \in DOMAIN ps |->
            [file |-> "orig", idx |-> ps[k] - 1, type |-> streams[ps[k]].type,
             kind |-> IF streams[ps[k]].type = "video"
                      THEN "CONVERTED" ELSE "COPIED"]]

\* The checks without the two on the conversion types.
WithoutConversionTypeChecks(ss) ==
    IF {k \in DOMAIN ss : ss[k].type = "video"} = {}
    THEN "At least one video stream is required."
    ELSE IF {k \in DOMAIN ss : ss[k].type = "audio"} = {}
    THEN "At least one audio stream is required."
    ELSE IF \E k \in DOMAIN ss : ss[k].type \notin {"video", "audio"}
    THEN "Stream sources must only contain video or audio streams."
    ELSE IF Cardinality({ss[k].file : k \in DOMAIN ss}) # 1
    THEN "All stream sources must originate from the same VideoFile."
    ELSE "ok"

\* The checks without the one on the source file.
WithoutSourceFileCheck(ss) ==
    IF {k \in DOMAIN ss : ss[k].type = "video"} = {}
    THEN "At least one video stream is required."
    ELSE IF {k \in DOMAIN ss : ss[k].type = "audio"} = {}
    THEN "At least one audio stream is required."
    ELSE IF \E k \in DOMAIN ss : ss[k].type = "video" /\ ss[k].kind # "CONVERTED"
    THEN "All video streams must be converted."
    ELSE IF \E k \in DOMAIN ss : ss[k].type = "audio" /\ ss[k].kind # "COPIED"
    THEN "All audio streams must be copied."
    ELSE IF \E k \in DOMAIN ss : ss[k].type \notin {"video", "audio"}
    THEN "Stream sources must only contain video or audio streams."
    ELSE "ok"

StreamSourcesForInitialConversion(ss) ==
    LET video == {k \in DOMAIN ss : ss[k].type = "video"}
        audio == {k \in DOMAIN ss : ss[k].type = "audio"}
    IN  IF video = {} THEN "At least one video stream is required."
        ELSE IF audio = {} THEN "At least one audio stream is required."
        ELSE IF \E k \in video : ss[k].kind # "CONVERTED"
             THEN "All video streams must be converted."
        ELSE IF \E k \in audio : ss[k].kind # "COPIED"
             THEN "All audio streams must be copied."
        ELSE IF \E k \in DOMAIN ss : ss[k].type \notin {"video", "audio"}
             THEN "Stream sources must only contain video or audio streams."
        ELSE IF Cardinality({ss[k].file : k \in DOMAIN ss}) # 1
             THEN "All stream sources must originate from the same VideoFile."
        ELSE "ok"

\* What the transcoder may write for the first pass on exit status 0: one
\* stream per -map argument, video converted, audio copied faithfully or not
\* (bad), and possibly one stream short of the plan.
FirstPassStream(o, src, isBad) ==
    IF src.type = "video"
    THEN [type |-> "video", channels |-> 0, codec |-> "hevc", dg |-> 9]
    ELSE [type |-> "audio", channels |-> o[src.idx + 1].channels,
          codec |-> o[src.idx + 1].codec,
          dg |-> IF isBad THEN 0 ELSE o[src.idx + 1].dg]

FirstPassOutputs(o, ss, r) ==
    LET audio == {k \in DOMAIN ss : ss[k].type = "audio"}
        full(bad) == [k \in DOMAIN ss |-> FirstPassStream(o, ss[k], k \in bad)]
    IN  {[tag |-> "first", run |-> r, streams |-> full(bad)] : bad \in SUBSET audio}
        \cup
        {[tag |-> "first", run |-> r,
          streams |-> SubSeq(full(bad), 1, Len(ss) - 1)] : bad \in SUBSET audio}

\* ------------------------------------------------------------ verify_streams
RECURSIVE ComparePairs(_, _, _, _)
ComparePairs(ins, outs, k, hashFailAt) ==
    IF k > Len(ins) THEN "ok"
    ELSE IF hashFailAt = k THEN "FFmpegProcessError"
    ELSE IF ins[k].dg # outs[k].dg THEN "StreamIntegrityError"
    ELSE ComparePairs(ins, outs, k + 1, hashFailAt)

\* input_file is not a ConvertedVideoFile: the streams of stream_type are
\* compared in order.  hashFailAt = k: the hasher fails at the k-th pair.
VerifySimple(inStreams, outStreams, stream_type, hashFailAt) ==
    LET ins  == StreamsOfType(inStreams, stream_type)
        outs == StreamsOfType(outStreams, stream_type)
    IN  IF Len(ins) # Len(outs) THEN "StreamIntegrityError"
        ELSE ComparePairs(ins, outs, 1, hashFailAt)

\* ------------------------------------------------------------ the run
Raise(e) ==
    /\ pc' = "exit"
    /\ exitCode' = 1
    /\ err' = e

CliStart ==
    /\ pc = "cli_start"
    /\ IF mp4.tag # "absent"
       THEN /\ pc' = "exit"
            /\ exitCode' = 0
       ELSE /\ pc' = "plan"
            /\ exitCode' = exitCode
    /\ UNCHANGED <<orig, inVer, fsVars, runs, err, miCache, sources, plan,
                   histVars, call>>

\* get_media_info: a hit of _get_media_info_cached returns the stored value;
\* on a miss ffprobe runs and a non-zero exit raises RuntimeError (nothing is
\* stored for a call that raised).
ProbeFails(key, pok) == key \notin miCache /\ ~pok

Plan ==
    /\ pc = "plan"
    /\ \E pok \in BOOLEAN :
        LET key == <<"orig", inVer>>
            ss  == _build_stream_sources(orig)
        IN  IF ProbeFails(key, pok)
            THEN /\ Raise("RuntimeError")
                 /\ UNCHANGED <<miCache, sources>>
            ELSE /\ miCache' = miCache \cup {key}
                 /\ IF StreamSourcesForInitialConversion(ss) # "ok"
                    THEN /\ Raise("ValueError")
                         /\ UNCHANGED sources
                    ELSE /\ pc' = "transcode"
                         /\ sources' = ss
                         /\ UNCHANGED <<exitCode, err>>
    /\ UNCHANGED <<orig, inVer, fsVars, runs, plan, histVars, call>>

\* if result.returncode != 0: raise RuntimeError(...)
\* A transcoder whose exit status is not looked at.
NeverFailed(rc) == FALSE

ReturncodeFailed(rc) == rc # 0

\* The initial conversion as if it were inside the try statement of ts2mp4.
RepairAfterFailure ==
    /\ pc' = "repair_plan"
    /\ UNCHANGED <<exitCode, err>>

\* The RuntimeError of _perform_initial_conversion is raised outside the try
\* statement of ts2mp4.
OnInitialFailure == Raise("RuntimeError")

Transcode ==
    /\ pc = "transcode"
    /\ ffmpegCalls < MaxFfmpegCalls
    /\ \E rc \in {0, 1} :
        /\ ffmpegCalls' = ffmpegCalls + 1
        /\ initExit' = rc
        /\ IF rc = 0
           THEN part' \in FirstPassOutputs(orig, sources, runs)
           ELSE part' \in {part, Partial}
        /\ IF ReturncodeFailed(rc)
           THEN OnInitialFailure
           ELSE /\ pc' = "construct"
                /\ UNCHANGED <<exitCode, err>>
    /\ UNCHANGED <<orig, inVer, temp, mp4, runs, miCache, sources, plan,
                   plannerCalls, repairExit, verifyResult, plannerResult,
                   reverifyResult, replaced, hashed, warned, call>>

\* ConvertedVideoFile.validate_stream_counts
\* A construction that accepts any number of sources.
AnyStreamCount(ss, streams) == TRUE

validate_stream_counts(ss, streams) == Len(ss) = Len(streams)

Construct ==
    /\ pc = "construct"
    /\ \E pok \in BOOLEAN :
        LET key == <<"part", 0>>
        IN  IF ProbeFails(key, pok)
            THEN /\ Raise("RuntimeError")
                 /\ UNCHANGED miCache
            ELSE /\ miCache' = miCache \cup {key}
                 /\ IF validate_stream_counts(sources, part.streams)
                    THEN /\ pc' = "verify"
                         /\ UNCHANGED <<exitCode, err>>
                    ELSE Raise("ValueError")
    /\ UNCHANGED <<orig, inVer, fsVars, runs, sources, plan, histVars, call>>

\* verify_streams(input_file, output_file, "audio") as ts2mp4 calls it: both
\* files are probed, then the audio streams are compared.
verify_streams(pokIn, pokOut, hashFailAt) ==
    IF ProbeFails(<<"orig", inVer>>, pokIn) THEN "RuntimeError"
    ELSE IF ProbeFails(<<"part", 0>>, pokOut) THEN "RuntimeError"
    ELSE VerifySimple(orig, part.streams, "audio", hashFailAt)

\* verify_streams reached the hasher.
VerifyHashes(pokIn, pokOut) ==
    /\ ~ProbeFails(<<"orig", inVer>>, pokIn)
    /\ ~ProbeFails(<<"part", 0>>, pokOut)
    /\ Len(StreamsOfType(orig, "audio")) = Len(StreamsOfType(part.streams, "audio"))
    /\ Len(StreamsOfType(orig, "audio")) > 0

\* except RuntimeError as e:
Catches(e) == IsRuntimeError(e)

Verify ==
    /\ pc = "verify"
    /\ \E pokIn, pokOut \in BOOLEAN, hashFailAt \in 0..MaxStreams :
        LET r == verify_streams(pokIn, pokOut, hashFailAt)
        IN  /\ verifyResult' = r
            /\ miCache' = miCache
                   \cup (IF ProbeFails(<<"orig", inVer>>, pokIn)
                         THEN {} ELSE {<<"orig", inVer>>})
            /\ hashed' = IF VerifyHashes(pokIn, pokOut)
                         THEN hashed \cup {"orig", "part"} ELSE hashed
            /\ IF r = "ok"
               THEN /\ pc' = "promote"
                    /\ UNCHANGED <<exitCode, err, warned>>
               ELSE IF Catches(r)
               THEN /\ pc' = "repair_plan"
                    /\ warned' = TRUE
                    /\ UNCHANGED <<exitCode, err>>
               ELSE /\ Raise(r)
                    /\ UNCHANGED warned
    /\ UNCHANGED <<orig, inVer, fsVars, runs, sources, plan, ffmpegCalls,
                   plannerCalls, initExit, repairExit, plannerResult,
                   reverifyResult, replaced, call>>

\* ------------------------------------------------------------ repair pass
\* compare_stream_hashes: the digests are equal and both could be computed.
compare_stream_hashes(a, b, hashFails) == ~hashFails /\ a.dg = b.dg

\* original_encoded_stream_mapping.get(original_stream): the position in the
\* encoded file of the stream whose source is the original stream at p
\* (0: none).
\* The encoded stream matched by position rather than by recorded source.
PositionalMatch(ss, p) == IF p <= Len(ss) THEN p ELSE 0

MatchingStream(ss, p) ==
    LET ms == {i \in DOMAIN ss : ss[i].idx = p - 1}
    IN  IF ms = {} THEN 0 ELSE CHOOSE i \in ms : \A j \in ms : j <= i

\* The stream source appended for the original stream at position p, whose
\* matching stream exists.  hashFailAt = p: the hasher fails for that stream.
PlanEntry(o, ss, enc, hashFailAt, p) ==
    LET m == MatchingStream(ss, p)
    IN  IF o[p].type = "audio"
           /\ ~compare_stream_hashes(o[p], enc[m], hashFailAt = p)
        THEN [file |-> "orig", idx |-> p - 1, type |-> "audio",
              kind |-> "CONVERTED"]
        ELSE [file |-> "enc", idx |-> m - 1, type |-> o[p].type,
              kind |-> "COPIED"]

\* A planner that leaves out the streams that have no matching stream.
SkipMissing(o, ss, enc, hashFailAt) ==
    LET ps == SetToSortedSeq({p \in valid_streams(o) : MatchingStream(ss, p) # 0})
    IN  [error |-> "none",
         list |-> [k \in DOMAIN ps |-> PlanEntry(o, ss, enc, hashFailAt, ps[k])]]

\* The list of stream sources for the repair, or the error raised while it is
\* built.
_build_stream_sources_for_audio_re_encoding(o, ss, enc, hashFailAt) ==
    LET ps == SetToSortedSeq(valid_streams(o))
    IN  IF \E k \in DOMAIN ps : MatchingStream(ss, ps[k]) = 0
        THEN [error |-> "RuntimeError", list |-> <<>>]
        ELSE [error |-> "none",
              list |-> [k \in DOMAIN ps |-> PlanEntry(o, ss, enc, hashFailAt, ps[k])]]

\* The checks without the last one, on the two files being different.
WithoutSameFileCheck(ss) ==
    LET video     == {ss[k] : k \in {j \in DOMAIN ss : ss[j].type = "video"}}
        audio     == {ss[k] : k \in {j \in DOMAIN ss : ss[j].type = "audio"}}
        copied    == {k \in DOMAIN ss : ss[k].kind = "COPIED"}
        converted == {k \in DOMAIN ss : ss[k].kind = "CONVERTED"}
    IN  IF Len(ss) # Cardinality(video) + Cardinality(audio)
        THEN "Only video and audio streams are supported."
        ELSE IF video = {} THEN "At least one video stream is required."
        ELSE IF audio = {} THEN "At least one audio stream is required."
        ELSE IF \E v \in video : v.kind # "COPIED"
             THEN "All video streams must be copied."
        ELSE IF copied = {} THEN "At least one stream must be copied."
        ELSE IF Cardinality({ss[k].file : k \in copied}) # 1
             THEN "All copied streams must come from the same encoded file."
        ELSE IF converted # {} /\ \E k \in converted : ss[k].type # "audio"
             THEN "Only audio streams can be converted."
        ELSE IF converted # {} /\ Cardinality({ss[k].file : k \in converted}) # 1
             THEN "All converted streams must come from the same original file."
        ELSE "ok"

\* video_stream_sources and audio_stream_sources are frozensets: equal sources
\* (same file, same stream, same conversion type) count once in them.
StreamSourcesForAudioReEncoding(ss) ==
    LET video     == {ss[k] : k \in {j \in DOMAIN ss : ss[j].type = "video"}}
        audio     == {ss[k] : k \in {j \in DOMAIN ss : ss[j].type = "audio"}}
        copied    == {k \in DOMAIN ss : ss[k].kind = "COPIED"}
        converted == {k \in DOMAIN ss : ss[k].kind = "CONVERTED"}
    IN  IF Len(ss) # Cardinality(video) + Cardinality(audio)
        THEN "Only video and audio streams are supported."
        ELSE IF video = {} THEN "At least one video stream is required."
        ELSE IF audio = {} THEN "At least one audio stream is required."
        ELSE IF \E v \in video : v.kind # "COPIED"
             THEN "All video streams must be copied."
        ELSE IF copied = {} THEN "At least one stream must be copied."
        ELSE IF Cardinality({ss[k].file : k \in copied}) # 1
             THEN "All copied streams must come from the same encoded file."
        ELSE IF converted # {} /\ \E k \in converted : ss[k].type # "audio"
             THEN "Only audio streams can be converted."
        ELSE IF converted # {} /\ Cardinality({ss[k].file : k \in converted}) # 1
             THEN "All converted streams must come from the same original file."
        ELSE IF converted # {}
                /\ {ss[k].file : k \in converted} = {ss[k].file : k \in copied}
             THEN "Original and encoded files cannot be the same when re-encoding."
        ELSE "ok"

\* A converter that takes every codec.
AnyCodecSupported(o, ss) == FALSE

\* _build_audio_convert_args raises NotImplementedError for a codec other
\* than aac.
UnsupportedCodec(o, ss) ==
    \E k \in DOMAIN ss : ss[k].kind = "CONVERTED" /\ o[ss[k].idx + 1].codec # "aac"

\* not any(s.conversion_type == CONVERTED for s in stream_sources)
\* A planner that never returns early.
AlwaysReEncode(ss) == FALSE

NothingToReEncode(ss) == \A k \in DOMAIN ss : ss[k].kind # "CONVERTED"

RepairPlan ==
    /\ pc = "repair_plan"
    /\ plannerCalls' = plannerCalls + 1
    /\ \E pok \in BOOLEAN, hashFailAt \in 0..MaxStreams :
        LET key == <<"orig", inVer>>
            b   == _build_stream_sources_for_audio_re_encoding(
                       orig, sources, part.streams, hashFailAt)
        IN  IF ProbeFails(key, pok)
            THEN /\ Raise("RuntimeError")
                 /\ plannerResult' = "RuntimeError"
                 /\ UNCHANGED <<miCache, plan, hashed>>
            ELSE /\ miCache' = miCache \cup {key}
                 /\ hashed' = hashed \cup {"orig", "part"}
                 /\ IF b.error # "none"
                    THEN /\ Raise(b.error)
                         /\ plannerResult' = b.error
                         /\ UNCHANGED plan
                    ELSE IF StreamSourcesForAudioReEncoding(b.list) # "ok"
                    THEN /\ Raise("ValueError")
                         /\ plannerResult' = "ValueError"
                         /\ UNCHANGED plan
                    ELSE IF NothingToReEncode(b.list)
                    THEN /\ pc' = "replace"
                         /\ plannerResult' = "NONE"
                         /\ plan' = b.list
                         /\ UNCHANGED <<exitCode, err>>
                    ELSE IF UnsupportedCodec(orig, b.list)
                    THEN /\ Raise("NotImplementedError")
                         /\ plannerResult' = "NotImplementedError"
                         /\ UNCHANGED plan
                    ELSE /\ pc' = "repair_transcode"
                         /\ plannerResult' = "PLAN"
                         /\ plan' = b.list
                         /\ UNCHANGED <<exitCode, err>>
    /\ UNCHANGED <<orig, inVer, fsVars, runs, sources, ffmpegCalls, initExit,
                   repairExit, verifyResult, reverifyResult, replaced, warned,
                   call>>

\* What the transcoder may write for the repair on exit status 0.
RepairStream(o, enc, src, isBad) ==
    IF src.kind = "COPIED"
    THEN [type |-> enc[src.idx + 1].type, channels |-> enc[src.idx + 1].channels,
          codec |-> enc[src.idx + 1].codec,
          dg |-> IF isBad THEN 0 ELSE enc[src.idx + 1].dg]
    ELSE [type |-> "audio", channels |-> o[src.idx + 1].channels,
          codec |-> "aac", dg |-> 9]

RepairOutputs(o, enc, ss, r) ==
    LET copied == {k \in DOMAIN ss : ss[k].kind = "COPIED"}
        full(bad) == [k \in DOMAIN ss |-> RepairStream(o, enc, ss[k], k \in bad)]
    IN  {[tag |-> "repaired", run |-> r, streams |-> full(bad)] :
            bad \in {b \in SUBSET copied : Cardinality(b) <= 1}}
        \cup
        {[tag |-> "repaired", run |-> r,
          streams |-> SubSeq(full({}), 1, Len(ss) - 1)]}

\* The RuntimeError raised in re_encode_mismatched_audio_streams leaves the
\* except clause of ts2mp4.
OnRepairFailure == Raise("RuntimeError")

RepairTranscode ==
    /\ pc = "repair_transcode"
    /\ ffmpegCalls < MaxFfmpegCalls
    /\ \E rc \in {0, 1} :
        /\ ffmpegCalls' = ffmpegCalls + 1
        /\ repairExit' = rc
        /\ IF rc = 0
           THEN temp' \in RepairOutputs(orig, part.streams, plan, runs)
           ELSE temp' \in {temp, Partial}
        /\ IF ReturncodeFailed(rc)
           THEN OnRepairFailure
           ELSE /\ pc' = "repair_construct"
                /\ UNCHANGED <<exitCode, err>>
    /\ UNCHANGED <<orig, inVer, part, mp4, runs, miCache, sources, plan,
                   plannerCalls, initExit, verifyResult, plannerResult,
                   reverifyResult, replaced, hashed, warned, call>>

RepairConstruct ==
    /\ pc = "repair_construct"
    /\ \E pok \in BOOLEAN :
        LET key == <<"temp", 0>>
        IN  IF ProbeFails(key, pok)
            THEN /\ Raise("RuntimeError")
                 /\ UNCHANGED miCache
            ELSE /\ miCache' = miCache \cup {key}
                 /\ IF validate_stream_counts(plan, temp.streams)
                    THEN /\ pc' = "reverify"
                         /\ UNCHANGED <<exitCode, err>>
                    ELSE Raise("ValueError")
    /\ UNCHANGED <<orig, inVer, fsVars, runs, sources, plan, histVars, call>>

\* verify_copied_streams: every output stream whose source is COPIED is
\* compared with its source stream; a failed comparison raises RuntimeError.
verify_copied_streams(out, ss, enc, hashFailAt) ==
    IF \E k \in DOMAIN ss :
           /\ ss[k].kind = "COPIED"
           /\ ~compare_stream_hashes(out[k], enc[ss[k].idx + 1], hashFailAt = k)
    THEN "RuntimeError"
    ELSE "ok"

\* A failed re-verification leaves ts2mp4: the repair is not tried again.
\* A failed re-verification that goes back to the planner.
RetryRepair ==
    /\ pc' = "repair_plan"
    /\ UNCHANGED <<exitCode, err>>

OnReVerifyFailure == Raise("RuntimeError")

ReVerify ==
    /\ pc = "reverify"
    /\ \E hashFailAt \in 0..MaxStreams :
        LET r == verify_copied_streams(temp.streams, plan, part.streams, hashFailAt)
        IN  /\ reverifyResult' = r
            /\ hashed' = IF \E k \in DOMAIN plan : plan[k].kind = "COPIED"
                         THEN hashed \cup {"temp", "part"} ELSE hashed
            /\ IF r = "ok"
               THEN /\ pc' = "metrics"
                    /\ UNCHANGED <<exitCode, err>>
               ELSE OnReVerifyFailure
    /\ UNCHANGED <<orig, inVer, fsVars, runs, miCache, sources, plan,
                   ffmpegCalls, plannerCalls, initExit, repairExit,
                   verifyResult, plannerResult, replaced, warned, call>>

\* The audio streams of the repaired file that were re-encoded.
ReEncodedAudio(ss) ==
    {k \in DOMAIN ss : ss[k].type = "audio" /\ ss[k].kind = "CONVERTED"}

NoMetrics == [error |-> "none", attempted |-> {}, logged |-> {}, metrics |-> {}]

\* A computation that lets the failure of the metrics process through: the
\* streams after the first failure are not reached.
UncaughtMetricsFailure(ss, failing, unparsed) ==
    LET targets == ReEncodedAudio(ss)
        bad     == targets \cap failing
        first   == CHOOSE k \in bad : \A j \in bad : k <= j
    IN  IF bad = {}
        THEN [error |-> "none", attempted |-> targets, logged |-> {},
              metrics |-> targets \ unparsed]
        ELSE [error |-> "FFmpegProcessError",
              attempted |-> {k \in targets : k <= first}, logged |-> {},
              metrics |-> {k \in targets : k < first} \ unparsed]

\* The quality metrics of each re-encoded audio stream.  failing: the streams
\* whose metrics process fails (FFmpegProcessError is caught and logged in
\* the loop, which goes on); unparsed: the streams in whose output no metric
\* is found.
get_audio_quality_metrics(ss, failing, unparsed) ==
    LET targets == ReEncodedAudio(ss)
    IN  [error     |-> "none",
         attempted |-> targets,
         logged    |-> targets \cap failing,
         metrics   |-> targets \ (failing \cup unparsed)]

Metrics ==
    /\ pc = "metrics"
    /\ \E failing \in SUBSET ReEncodedAudio(plan) :
       \E unparsed \in SUBSET (ReEncodedAudio(plan) \ failing) :
          LET r == get_audio_quality_metrics(plan, failing, unparsed)
          IN  /\ call' = [call EXCEPT !.metrics = r]
              /\ IF r.error # "none"
                 THEN Raise(r.error)
                 ELSE /\ pc' = "replace"
                      /\ UNCHANGED <<exitCode, err>>
    /\ UNCHANGED <<orig, inVer, fsVars, runs, miCache, sources, plan, histVars>>

\* temp_output_file.replace(output_path), whatever the planner returned.
Replace ==
    /\ pc = "replace"
    /\ IF temp.tag = "absent"
       THEN /\ Raise("FileNotFoundError")
            /\ UNCHANGED <<fsVars, replaced>>
       ELSE /\ part' = temp
            /\ temp' = Absent
            /\ replaced' = TRUE
            /\ pc' = "promote"
            /\ UNCHANGED <<mp4, exitCode, err>>
    /\ UNCHANGED <<orig, inVer, runs, miCache, sources, plan, ffmpegCalls,
                   plannerCalls, initExit, repairExit, verifyResult,
                   plannerResult, reverifyResult, hashed, warned, call>>

\* A command that fails after it has promoted the file.
PromoteAndFail ==
    /\ pc = "promote"
    /\ mp4' = part
    /\ part' = Absent
    /\ pc' = "exit"
    /\ exitCode' = 1
    /\ UNCHANGED <<orig, inVer, temp, runs, err, miCache, sources, plan,
                   histVars, call>>

\* ts2mp4 returned: mp4_part.replace(mp4) and the closing log lines.
Promote ==
    /\ pc = "promote"
    /\ mp4' = part
    /\ part' = Absent
    /\ pc' = "exit"
    /\ exitCode' = 0
    /\ UNCHANGED <<orig, inVer, temp, runs, err, miCache, sources, plan,
                   histVars, call>>

\* Another process changes the mtime or size of the input while this one runs
\* (a recording that is still being written).  The change is seen at the next
\* stat of the input, so it is taken where the next step is such a stat with
\* the media info of the input already cached.
Touch ==
    /\ pc \in {"verify", "repair_plan"}
    /\ call.op = "main"
    /\ inVer < MaxTouch
    /\ inVer' = inVer + 1
    /\ UNCHANGED <<orig, fsVars, runs, pc, exitCode, err, miCache, sources,
                   plan, histVars, call>>

\* The command is run again on the same input: a new process, the files as
\* the last run left them.
Rerun ==
    /\ pc = "exit"
    /\ call.op = "main"
    /\ runs < MaxRuns
    /\ runs' = runs + 1
    /\ pc' = "cli_start"
    /\ exitCode' = -1
    /\ err' = "none"
    /\ miCache' = {}
    /\ sources' = <<>>
    /\ plan' = <<>>
    /\ ffmpegCalls' = 0
    /\ plannerCalls' = 0
    /\ initExit' = -1
    /\ repairExit' = -1
    /\ verifyResult' = "none"
    /\ plannerResult' = "none"
    /\ reverifyResult' = "none"
    /\ replaced' = FALSE
    /\ hashed' = {}
    /\ warned' = FALSE
    /\ inVer' = 0
    /\ call' = [call EXCEPT !.metrics = NoMetrics]
    /\ UNCHANGED <<orig, fsVars>>

Init ==
    /\ orig \in InputFiles
    /\ inVer = 0
    /\ part = Absent
    /\ temp = Absent
    /\ mp4 = Absent
    /\ runs = 1
    /\ pc = "cli_start"
    /\ exitCode = -1
    /\ err = "none"
    /\ miCache = {}
    /\ sources = <<>>
    /\ plan = <<>>
    /\ ffmpegCalls = 0
    /\ plannerCalls = 0
    /\ initExit = -1
    /\ repairExit = -1
    /\ verifyResult = "none"
    /\ plannerResult = "none"
    /\ reverifyResult = "none"
    /\ replaced = FALSE
    /\ hashed = {}
    /\ warned = FALSE
    /\ call = [op |-> "main", metrics |-> NoMetrics]

Next ==
    \/ CliStart
    \/ Plan
    \/ Transcode
    \/ Construct
    \/ Verify
    \/ RepairPlan
    \/ RepairTranscode
    \/ RepairConstruct
    \/ ReVerify
    \/ Metrics
    \/ Replace
    \/ Promote
    \/ Touch
    \/ Rerun

Spec == Init /\ [][Next]_vars
\* ------------------------------------------------------------ audio_repair
\* _get_audio_stream_count: the number of audio streams ffprobe reports.
_get_audio_stream_count(streams) == Cardinality(Positions(streams, "audio"))

\* The file _build_ffmpeg_args asks for: the first video stream of the mp4,
\* then per audio stream of the original either the re-encoded original
\* stream (failed) or the copy of the mp4's.
RepairedByAudioRepair(o, enc, failed, r) ==
    LET oa == StreamsOfType(o, "audio")
        ea == StreamsOfType(enc, "audio")
        audio == [i \in 1..Len(oa) |->
                    IF (i - 1) \in failed \/ i > Len(ea)
                    THEN [type |-> "audio", channels |-> oa[i].channels,
                          codec |-> oa[i].codec, dg |-> 9]
                    ELSE ea[i]]
    IN  [tag |-> "repaired", run |-> r,
         streams |-> SubSeq(StreamsOfType(enc, "video"), 1, 1) \o audio]

ArRaise(e) ==
    /\ pc' = "ar_raised"
    /\ err' = e

ArStart ==
    /\ pc = "ar_start"
    /\ pc' = IF call.failed = {} THEN "ar_done" ELSE "ar_build"
    /\ UNCHANGED <<orig, inVer, fsVars, runs, exitCode, err, miCache, sources,
                   plan, histVars, call>>

ArBuildArgs ==
    /\ pc = "ar_build"
    /\ \E pokCount, pokCodec \in BOOLEAN :
        IF ~pokCount
           \/ (~pokCodec /\ \E i \in call.failed : i < _get_audio_stream_count(orig))
        THEN ArRaise("RuntimeError")
        ELSE /\ pc' = "ar_transcode"
             /\ UNCHANGED err
    /\ UNCHANGED <<orig, inVer, fsVars, runs, exitCode, miCache, sources, plan,
                   histVars, call>>

ArTranscode ==
    /\ pc = "ar_transcode"
    /\ ffmpegCalls < MaxFfmpegCalls
    /\ \E rc \in {0, 1} :
        /\ ffmpegCalls' = ffmpegCalls + 1
        /\ repairExit' = rc
        /\ IF ReturncodeFailed(rc)
           THEN /\ ArRaise("RuntimeError")
                /\ temp' \in {temp, Partial}
           ELSE /\ pc' = "ar_unlink"
                /\ temp' = RepairedByAudioRepair(orig, part.streams, call.failed, runs)
                /\ UNCHANGED err
    /\ UNCHANGED <<orig, inVer, part, mp4, runs, exitCode, miCache, sources,
                   plan, plannerCalls, initExit, verifyResult, plannerResult,
                   reverifyResult, replaced, hashed, warned, call>>

\* output_mp4_file.unlink()
ArUnlink ==
    /\ pc = "ar_unlink"
    /\ part' = Absent
    /\ pc' = "ar_rename"
    /\ UNCHANGED <<orig, inVer, temp, mp4, runs, exitCode, err, miCache,
                   sources, plan, histVars, call>>

\* temp_output_file.rename(output_mp4_file)
ArRename ==
    /\ pc = "ar_rename"
    /\ part' = temp
    /\ temp' = Absent
    /\ replaced' = TRUE
    /\ pc' = "ar_done"
    /\ UNCHANGED <<orig, inVer, mp4, runs, exitCode, err, miCache, sources,
                   plan, ffmpegCalls, plannerCalls, initExit, repairExit,
                   verifyResult, plannerResult, reverifyResult, hashed, warned,
                   call>>

\* A faithful first-pass output of the input o.
FaithfulFirstPass(o) ==
    LET ss == _build_stream_sources(o)
    IN  [tag |-> "first", run |-> 1,
         streams |-> [k \in DOMAIN ss |-> FirstPassStream(o, ss[k], FALSE)]]

InitAudioRepair ==
    /\ orig \in {o \in InputFiles :
                    StreamSourcesForInitialConversion(_build_stream_sources(o)) = "ok"}
    /\ part = FaithfulFirstPass(orig)
    /\ \E failed \in SUBSET (0..(MaxStreams - 1)) :
        call = [op |-> "reencode_and_replace_audio_streams", failed |-> failed]
    /\ pc = "ar_start"
    /\ inVer = 0
    /\ temp = Absent
    /\ mp4 = Absent
    /\ runs = 1
    /\ exitCode = -1
    /\ err = "none"
    /\ miCache = {}
    /\ sources = <<>>
    /\ plan = <<>>
    /\ ffmpegCalls = 0
    /\ plannerCalls = 0
    /\ initExit = -1
    /\ repairExit = -1
    /\ verifyResult = "none"
    /\ plannerResult = "none"
    /\ reverifyResult = "none"
    /\ replaced = FALSE
    /\ hashed = {}
    /\ warned = FALSE

NextAudioRepair ==
    \/ ArStart
    \/ ArBuildArgs
    \/ ArTranscode
    \/ ArUnlink
    \/ ArRename

SpecAudioRepair == InitAudioRepair /\ [][NextAudioRepair]_vars

\* ------------------------------------------------------------ verify_streams
\* on a ConvertedVideoFile.  An entry of cvf is an output stream with its
\* source: [type, kind, file, same], same = the digest of the output stream
\* equals the digest of the source stream.
CvfEntries ==
    [type : {"video", "audio"}, kind : {"COPIED", "CONVERTED"},
     file : {"src", "other"}, same : BOOLEAN]

CvfFiles == UNION {[1..n -> CvfEntries] : n \in 0..MaxCvfStreams}

\* The stream at k is not skipped by one of the three continue statements.
IsCompared(e, stream_type, accepted, file) ==
    /\ e.type = stream_type
    /\ ~(accepted # {} /\ e.kind \notin accepted)
    /\ e.file = file

RECURSIVE VerifyItems(_, _, _, _, _, _, _)
VerifyItems(cvf, k, stream_type, accepted, file, hashFailAt, compared) ==
    IF k > Len(cvf) THEN [result |-> "ok", compared |-> compared]
    ELSE IF ~IsCompared(cvf[k], stream_type, accepted, file)
    THEN VerifyItems(cvf, k + 1, stream_type, accepted, file, hashFailAt, compared)
    ELSE IF hashFailAt = k
    THEN [result |-> "FFmpegProcessError", compared |-> compared]
    ELSE IF ~cvf[k].same
    THEN [result |-> "StreamIntegrityError", compared |-> compared \cup {k}]
    ELSE VerifyItems(cvf, k + 1, stream_type, accepted, file, hashFailAt,
                     compared \cup {k})

\* A verification that compares the streams of every conversion type.
VerifyAllKinds(cvf, stream_type, accepted, file, hashFailAt) ==
    VerifyItems(cvf, 1, stream_type, {}, file, hashFailAt, {})

\* input_file is a ConvertedVideoFile, output_file the file compared against.
VerifyProvenance(cvf, stream_type, accepted, file, hashFailAt) ==
    VerifyItems(cvf, 1, stream_type, accepted, file, hashFailAt, {})

VerifyCall ==
    /\ pc = "call"
    /\ call.op = "verify_streams"
    /\ call' = [call EXCEPT !.out = VerifyProvenance(call.cvf, call.stream_type,
                                call.accepted, "src", call.hashFailAt)]
    /\ pc' = "returned"
    /\ UNCHANGED <<orig, inVer, fsVars, runs, exitCode, err, miCache, sources,
                   plan, histVars>>

InitVerify ==
    /\ \E cvf \in CvfFiles, stream_type \in {"video", "audio"},
          accepted \in SUBSET {"COPIED", "CONVERTED"},
          hashFailAt \in 0..MaxCvfStreams :
        call = [op |-> "verify_streams", cvf |-> cvf, stream_type |-> stream_type,
                accepted |-> accepted, hashFailAt |-> hashFailAt,
                out |-> [result |-> "none", compared |-> {}]]
    /\ pc = "call"
    /\ orig = <<>>
    /\ part = Absent
    /\ inVer = 0
    /\ temp = Absent
    /\ mp4 = Absent
    /\ runs = 1
    /\ exitCode = -1
    /\ err = "none"
    /\ miCache = {}
    /\ sources = <<>>
    /\ plan = <<>>
    /\ ffmpegCalls = 0
    /\ plannerCalls = 0
    /\ initExit = -1
    /\ repairExit = -1
    /\ verifyResult = "none"
    /\ plannerResult = "none"
    /\ reverifyResult = "none"
    /\ replaced = FALSE
    /\ hashed = {}
    /\ warned = FALSE

NextVerify == VerifyCall

SpecVerify == InitVerify /\ [][NextVerify]_vars

\* ------------------------------------------------------------ a file verified
\* against itself.  A file is a sequence of streams [type, dg], dg standing for
\* the decoded content; stream k has index k - 1.
PlainFiles ==
    UNION {[1..n -> [type : {"video", "audio"}, dg : 1..2]] : n \in 0..MaxCvfStreams}

\* A hasher that depends on where the stream is, not only on its content.
PositionalMd5(f, index) == f[index + 1].dg * 10 + index

\* get_stream_md5: the MD5 of the decoded stream 0:index of the file.
get_stream_md5(f, index) == f[index + 1].dg

\* The ConvertedVideoFile f whose stream k is COPIED from stream srcidx[k] of
\* f itself, as verify_streams sees it.
SelfCvf(f, srcidx) ==
    [k \in DOMAIN f |->
        [type |-> f[k].type, kind |-> "COPIED", file |-> "src",
         same |-> get_stream_md5(f, k - 1) = get_stream_md5(f, srcidx[k])]]

RECURSIVE CompareSame(_, _, _)
CompareSame(f, idxs, k) ==
    IF k > Len(idxs) THEN "ok"
    ELSE IF get_stream_md5(f, idxs[k]) # get_stream_md5(f, idxs[k])
    THEN "StreamIntegrityError"
    ELSE CompareSame(f, idxs, k + 1)

\* The simple branch with input_file and output_file the same file.
VerifySimpleSelf(f, stream_type) ==
    LET ps == SetToSortedSeq({p \in DOMAIN f : f[p].type = stream_type})
    IN  CompareSame(f, [k \in DOMAIN ps |-> ps[k] - 1], 1)

SelfVerifyCall ==
    /\ pc = "self_call"
    /\ call' = [call EXCEPT !.out =
                  IF call.converted
                  THEN VerifyProvenance(SelfCvf(call.f, call.srcidx),
                           call.stream_type, call.accepted, "src", 0).result
                  ELSE VerifySimpleSelf(call.f, call.stream_type)]
    /\ pc' = "self_returned"
    /\ UNCHANGED <<orig, inVer, fsVars, runs, exitCode, err, miCache, sources,
                   plan, histVars>>

InitSelfVerify ==
    /\ \E f \in PlainFiles, stream_type \in {"video", "audio"},
          accepted \in SUBSET {"COPIED", "CONVERTED"}, converted \in BOOLEAN :
        \E srcidx \in [DOMAIN f -> 0..(Len(f) - 1)] :
            /\ \A k \in DOMAIN f : f[srcidx[k] + 1] = f[k]
            /\ call = [op |-> "verify_self", f |-> f, srcidx |-> srcidx,
                       stream_type |-> stream_type, accepted |-> accepted,
                       converted |-> converted, out |-> "none"]
    /\ pc = "self_call"
    /\ orig = <<>>
    /\ part = Absent
    /\ inVer = 0
    /\ temp = Absent
    /\ mp4 = Absent
    /\ runs = 1
    /\ exitCode = -1
    /\ err = "none"
    /\ miCache = {}
    /\ sources = <<>>
    /\ plan = <<>>
    /\ ffmpegCalls = 0
    /\ plannerCalls = 0
    /\ initExit = -1
    /\ repairExit = -1
    /\ verifyResult = "none"
    /\ plannerResult = "none"
    /\ reverifyResult = "none"
    /\ replaced = FALSE
    /\ hashed = {}
    /\ warned = FALSE

NextSelfVerify == SelfVerifyCall

SpecSelfVerify == InitSelfVerify /\ [][NextSelfVerify]_vars

\* ------------------------------------------------------------ audio_integrity
\* What a call of get_stream_md5 can do: return the digest, or raise the
\* FFmpegProcessError of _stream_stdout (exit status not 0), or raise a
\* RuntimeError (asyncio.run inside a running loop).
HasherOutcomes == {"ok", "FFmpegProcessError", "RuntimeError"}

\* check_stream_integrity: "True", "False" or the exception that leaves it.
check_stream_integrity(inDg, outDg, inOutcome, outOutcome) ==
    IF inOutcome # "ok"
    THEN (IF IsRuntimeError(inOutcome) THEN "False" ELSE inOutcome)
    ELSE IF outOutcome # "ok"
    THEN (IF IsRuntimeError(outOutcome) THEN "False" ELSE outOutcome)
    ELSE IF inDg # outDg THEN "False"
    ELSE "True"

CheckIntegrityCall ==
    /\ pc = "ci_call"
    /\ call' = [call EXCEPT !.out = check_stream_integrity(
                   call.inDg, call.outDg, call.inOutcome, call.outOutcome)]
    /\ pc' = "ci_returned"
    /\ UNCHANGED <<orig, inVer, fsVars, runs, exitCode, err, miCache, sources,
                   plan, histVars>>

InitCheckIntegrity ==
    /\ \E inDg, outDg \in 1..MaxDigest, inOutcome, outOutcome \in HasherOutcomes :
        call = [op |-> "check_stream_integrity", inDg |-> inDg, outDg |-> outDg,
                inOutcome |-> inOutcome, outOutcome |-> outOutcome, out |-> "none"]
    /\ pc = "ci_call"
    /\ orig = <<>>
    /\ part = Absent
    /\ inVer = 0
    /\ temp = Absent
    /\ mp4 = Absent
    /\ runs = 1
    /\ exitCode = -1
    /\ err = "none"
    /\ miCache = {}
    /\ sources = <<>>
    /\ plan = <<>>
    /\ ffmpegCalls = 0
    /\ plannerCalls = 0
    /\ initExit = -1
    /\ repairExit = -1
    /\ verifyResult = "none"
    /\ plannerResult = "none"
    /\ reverifyResult = "none"
    /\ replaced = FALSE
    /\ hashed = {}
    /\ warned = FALSE

NextCheckIntegrity == CheckIntegrityCall

SpecCheckIntegrity == InitCheckIntegrity /\ [][NextCheckIntegrity]_vars

\* ------------------------------------------------------------ the planner
\* on any initially converted file.  The provenance of the encoded file names
\* distinct valid streams of the original, in any order, possibly not all.
RECURSIVE Orderings(_)
Orderings(S) ==
    IF S = {} THEN {<<>>}
    ELSE UNION {{<<x>> \o t : t \in Orderings(S \ {x})} : x \in S}

Provenances(o) ==
    LET seqs == UNION {Orderings(S) : S \in SUBSET valid_streams(o)}
        src(q) == [k \in DOMAIN q |->
                     [file |-> "orig", idx |-> q[k] - 1, type |-> o[q[k]].type,
                      kind |-> IF o[q[k]].type = "video"
                               THEN "CONVERTED" ELSE "COPIED"]]
    IN  {ss \in {src(q) : q \in seqs} : StreamSourcesForInitialConversion(ss) = "ok"}

EncodedFiles(o, ss) ==
    {[k \in DOMAIN ss |-> FirstPassStream(o, ss[k], k \in bad)] :
        bad \in SUBSET {k \in DOMAIN ss : ss[k].type = "audio"}}

\* re_encode_mismatched_audio_streams up to the call of the transcoder.
PlannerOutcome(o, ss, enc, hashFailAt) ==
    LET b == _build_stream_sources_for_audio_re_encoding(o, ss, enc, hashFailAt)
        r == IF b.error # "none" THEN b.error
             ELSE IF StreamSourcesForAudioReEncoding(b.list) # "ok" THEN "ValueError"
             ELSE IF NothingToReEncode(b.list) THEN "NONE"
             ELSE IF UnsupportedCodec(o, b.list) THEN "NotImplementedError"
             ELSE "PLAN"
    IN  [error |-> b.error, list |-> b.list, result |-> r,
         transcoded |-> (r = "PLAN")]

PlannerCall ==
    /\ pc = "pl_call"
    /\ call' = [call EXCEPT !.out =
                   PlannerOutcome(call.o, call.ss, call.enc, call.hashFailAt)]
    /\ pc' = "pl_returned"
    /\ UNCHANGED <<orig, inVer, fsVars, runs, exitCode, err, miCache, sources,
                   plan, histVars>>

InitPlanner ==
    /\ \E o \in InputFiles, hashFailAt \in 0..MaxStreams :
        \E ss \in Provenances(o) :
            \E enc \in EncodedFiles(o, ss) :
                call = [op |-> "plan_repair", o |-> o, ss |-> ss, enc |-> enc,
                        hashFailAt |-> hashFailAt,
                        out |-> [error |-> "none", list |-> <<>>,
                                 result |-> "none", transcoded |-> FALSE]]
    /\ pc = "pl_call"
    /\ orig = <<>>
    /\ part = Absent
    /\ inVer = 0
    /\ temp = Absent
    /\ mp4 = Absent
    /\ runs = 1
    /\ exitCode = -1
    /\ err = "none"
    /\ miCache = {}
    /\ sources = <<>>
    /\ plan = <<>>
    /\ ffmpegCalls = 0
    /\ plannerCalls = 0
    /\ initExit = -1
    /\ repairExit = -1
    /\ verifyResult = "none"
    /\ plannerResult = "none"
    /\ reverifyResult = "none"
    /\ replaced = FALSE
    /\ hashed = {}
    /\ warned = FALSE

NextPlanner == PlannerCall

SpecPlanner == InitPlanner /\ [][NextPlanner]_vars

\* ------------------------------------------------------------ MediaInfo
\* The streams given to MediaInfo, each stood for by its index, as a list
\* (what the JSON of ffprobe holds) or as another sequence.
IndexLists == UNION {[1..n -> 0..MaxStreams] : n \in 0..MaxStreams}

\* A validator that leaves the order as given.
KeepOrder(v, isList) == v

\* sort_streams: a list is sorted by index, anything else is left alone.
sort_streams(v, isList) ==
    IF isList THEN SortSeq(v, LAMBDA a, b : a < b) ELSE v

\* validate_stream_indices: the index of each stream is its position.
validate_stream_indices(streams) ==
    IF \E i \in DOMAIN streams : streams[i] # i - 1 THEN "ValueError" ELSE "ok"

MediaInfoCall ==
    /\ pc = "mi_call"
    /\ LET sorted == sort_streams(call.v, call.isList)
           r      == validate_stream_indices(sorted)
       IN  call' = [call EXCEPT !.out = r,
                                !.streams = IF r = "ok" THEN sorted ELSE <<>>]
    /\ pc' = "mi_returned"
    /\ UNCHANGED <<orig, inVer, fsVars, runs, exitCode, err, miCache, sources,
                   plan, histVars>>

InitMediaInfo ==
    /\ \E v \in IndexLists, isList \in BOOLEAN :
        call = [op |-> "MediaInfo", v |-> v, isList |-> isList,
                out |-> "none", streams |-> <<>>]
    /\ pc = "mi_call"
    /\ orig = <<>>
    /\ part = Absent
    /\ inVer = 0
    /\ temp = Absent
    /\ mp4 = Absent
    /\ runs = 1
    /\ exitCode = -1
    /\ err = "none"
    /\ miCache = {}
    /\ sources = <<>>
    /\ plan = <<>>
    /\ ffmpegCalls = 0
    /\ plannerCalls = 0
    /\ initExit = -1
    /\ repairExit = -1
    /\ verifyResult = "none"
    /\ plannerResult = "none"
    /\ reverifyResult = "none"
    /\ replaced = FALSE
    /\ hashed = {}
    /\ warned = FALSE

NextMediaInfo == MediaInfoCall

SpecMediaInfo == InitMediaInfo /\ [][NextMediaInfo]_vars

\* ------------------------------------------------------------ the stream
\* sources of the initial conversion, constructed from any tuple of sources.
AnySources ==
    UNION {[1..n -> [file : {"orig", "other"},
                     type : {"video", "audio", "subtitle"},
                     kind : {"COPIED", "CONVERTED"}]] : n \in 0..MaxStreams}

InitialSourcesCall ==
    /\ pc = "is_call"
    /\ call' = [call EXCEPT !.out = StreamSourcesForInitialConversion(call.ss)]
    /\ pc' = "is_returned"
    /\ UNCHANGED <<orig, inVer, fsVars, runs, exitCode, err, miCache, sources,
                   plan, histVars>>

InitInitialSources ==
    /\ \E ss \in AnySources :
        call = [op |-> "StreamSourcesForInitialConversion", ss |-> ss,
                out |-> "none"]
    /\ pc = "is_call"
    /\ orig = <<>>
    /\ part = Absent
    /\ inVer = 0
    /\ temp = Absent
    /\ mp4 = Absent
    /\ runs = 1
    /\ exitCode = -1
    /\ err = "none"
    /\ miCache = {}
    /\ sources = <<>>
    /\ plan = <<>>
    /\ ffmpegCalls = 0
    /\ plannerCalls = 0
    /\ initExit = -1
    /\ repairExit = -1
    /\ verifyResult = "none"
    /\ plannerResult = "none"
    /\ reverifyResult = "none"
    /\ replaced = FALSE
    /\ hashed = {}
    /\ warned = FALSE

NextInitialSources == InitialSourcesCall

SpecInitialSources == InitInitialSources /\ [][NextInitialSources]_vars

\* ------------------------------------------------------------ the stream
\* sources of the repair, constructed from any tuple of sources.
MaxSourceIdx == 3

\* The type of the stream at an index of a source file: a video stream, two
\* audio streams and a subtitle stream, and so on.
StreamTypeAt(i) ==
    CASE i % 4 = 0 -> "video"
      [] i % 4 = 3 -> "subtitle"
      [] OTHER     -> "audio"

AnyRepairSources ==
    UNION {[1..n -> {[file |-> f, idx |-> i, type |-> StreamTypeAt(i), kind |-> c] :
                        f \in {"orig", "enc"}, i \in 0..MaxSourceIdx,
                        c \in {"COPIED", "CONVERTED"}}] : n \in 0..MaxStreams}

RepairSourcesCall ==
    /\ pc = "rs_call"
    /\ call' = [call EXCEPT !.out = StreamSourcesForAudioReEncoding(call.ss)]
    /\ pc' = "rs_returned"
    /\ UNCHANGED <<orig, inVer, fsVars, runs, exitCode, err, miCache, sources,
                   plan, histVars>>

InitRepairSources ==
    /\ \E ss \in AnyRepairSources :
        call = [op |-> "StreamSourcesForAudioReEncoding", ss |-> ss,
                out |-> "none"]
    /\ pc = "rs_call"
    /\ orig = <<>>
    /\ part = Absent
    /\ inVer = 0
    /\ temp = Absent
    /\ mp4 = Absent
    /\ runs = 1
    /\ exitCode = -1
    /\ err = "none"
    /\ miCache = {}
    /\ sources = <<>>
    /\ plan = <<>>
    /\ ffmpegCalls = 0
    /\ plannerCalls = 0
    /\ initExit = -1
    /\ repairExit = -1
    /\ verifyResult = "none"
    /\ plannerResult = "none"
    /\ reverifyResult = "none"
    /\ replaced = FALSE
    /\ hashed = {}
    /\ warned = FALSE

NextRepairSources == RepairSourcesCall

SpecRepairSources == InitRepairSources /\ [][NextRepairSources]_vars

\* ------------------------------------------------------------ the
\* transcoder commands.  Of a command the model keeps the -i inputs in order
\* and the -map arguments in order, '<input>:<stream>' as the pair of the two
\* numbers.
\* ts2mp4.py: one input, the file of the first source, and '0:<index>' for
\* each source.
_build_ffmpeg_args_from_stream_sources(ss) ==
    [error  |-> "none",
     inputs |-> <<ss[1].file>>,
     maps   |-> [k \in DOMAIN ss |-> <<0, ss[k].idx>>]]

\* list(dict.fromkeys(...)): the files in the order of their first occurrence.
RECURSIVE InputFilesOf(_, _)
InputFilesOf(ss, k) ==
    IF k = 0 THEN <<>>
    ELSE LET before == InputFilesOf(ss, k - 1)
         IN  IF \E i \in DOMAIN before : before[i] = ss[k].file
             THEN before
             ELSE Append(before, ss[k].file)

\* input_file_map[file]
InputIndex(inputs, file) ==
    (CHOOSE i \in DOMAIN inputs : inputs[i] = file) - 1

\* A builder that maps every stream from the first input.
MapsFromFirstInput(ss, nonAac) ==
    IF \E k \in DOMAIN ss : ss[k].kind = "CONVERTED" /\ ss[k].idx \in nonAac
    THEN [error |-> "NotImplementedError", inputs |-> <<>>, maps |-> <<>>]
    ELSE [error  |-> "none",
          inputs |-> InputFilesOf(ss, Len(ss)),
          maps   |-> [k \in DOMAIN ss |-> <<0, ss[k].idx>>]]

\* _build_ffmpeg_args_from_stream_sources of audio_reencoder.py (the module
\* ts2mp4 has a function of the same name).  nonAac: the indices of the streams of the original
\* file whose codec is not aac; _build_audio_convert_args raises for them.
_build_ffmpeg_args_from_stream_sources_re_encoding(ss, nonAac) ==
    LET inputs == InputFilesOf(ss, Len(ss))
    IN  IF \E k \in DOMAIN ss : ss[k].kind = "CONVERTED" /\ ss[k].idx \in nonAac
        THEN [error |-> "NotImplementedError", inputs |-> <<>>, maps |-> <<>>]
        ELSE [error  |-> "none",
              inputs |-> inputs,
              maps   |-> [k \in DOMAIN ss |->
                             <<InputIndex(inputs, ss[k].file), ss[k].idx>>]]

InitialArgsCall ==
    /\ pc = "ba_call"
    /\ call.op = "initial"
    /\ call' = [call EXCEPT !.out = _build_ffmpeg_args_from_stream_sources(call.ss)]
    /\ pc' = "ba_returned"
    /\ UNCHANGED <<orig, inVer, fsVars, runs, exitCode, err, miCache, sources,
                   plan, histVars>>

ReEncodeArgsCall ==
    /\ pc = "ba_call"
    /\ call.op = "re_encode"
    /\ call' = [call EXCEPT !.out = _build_ffmpeg_args_from_stream_sources_re_encoding(call.ss, call.nonAac)]
    /\ pc' = "ba_returned"
    /\ UNCHANGED <<orig, inVer, fsVars, runs, exitCode, err, miCache, sources,
                   plan, histVars>>

NoArgs == [error |-> "none", inputs |-> <<>>, maps |-> <<>>]

\* The builders are given constructed stream sources only.
InitBuildArgs ==
    /\ \/ \E ss \in AnyRepairSources :
            /\ StreamSourcesForInitialConversion(ss) = "ok"
            /\ call = [op |-> "initial", ss |-> ss, nonAac |-> {}, out |-> NoArgs]
       \/ \E ss \in AnyRepairSources,
             nonAac \in SUBSET {i \in 0..MaxSourceIdx : StreamTypeAt(i) = "audio"} :
            /\ StreamSourcesForAudioReEncoding(ss) = "ok"
            /\ call = [op |-> "re_encode", ss |-> ss, nonAac |-> nonAac,
                       out |-> NoArgs]
    /\ pc = "ba_call"
    /\ orig = <<>>
    /\ part = Absent
    /\ inVer = 0
    /\ temp = Absent
    /\ mp4 = Absent
    /\ runs = 1
    /\ exitCode = -1
    /\ err = "none"
    /\ miCache = {}
    /\ sources = <<>>
    /\ plan = <<>>
    /\ ffmpegCalls = 0
    /\ plannerCalls = 0
    /\ initExit = -1
    /\ repairExit = -1
    /\ verifyResult = "none"
    /\ plannerResult = "none"
    /\ reverifyResult = "none"
    /\ replaced = FALSE
    /\ hashed = {}
    /\ warned = FALSE

NextBuildArgs == InitialArgsCall \/ ReEncodeArgsCall

SpecBuildArgs == InitBuildArgs /\ [][NextBuildArgs]_vars

\* ------------------------------------------------------------ the caches
\* of get_stream_md5 and get_media_info, for one resolved path.  call.stat is
\* what stat() returns for the file (st_mtime, st_size), call.content stands
\* for its bytes; call.md5 and call.info are the two caches of functools.cache.
\* Of the invocations of the external tools call.returned holds those that
\* returned a value, each with its rank among those of its key, call.failed
\* holds the keys of those that failed and call.calls is their number;
\* call.last is the last lookup.
MaxStat == 1
MaxCacheStream == 1
MaxToolCalls == 2
MaxModify == 2

Stats == (0..MaxStat) \X (0..MaxStat)

\* What the hasher computes for a stream of the file.
Md5Of(content, stream) == <<"md5", content, stream>>

\* What ffprobe reports for the file.
InfoOf(content) == <<"info", content>>

\* A lookup that never finds a stored value.
NeverCached(cache, key) == {}

\* functools.cache: the value stored for a key, if any.
Cached(cache, key) == {e \in cache : e.key = key}

\* A cache that also stores the error of a failed call.
StoreFailures(cache, key, ok, value, error) ==
    cache \cup {[key |-> key, value |-> IF ok THEN value ELSE error]}

\* functools.cache stores the value a call returned; a call that raised
\* stores nothing.
CacheStore(cache, key, ok, value, error) ==
    IF ok THEN cache \cup {[key |-> key, value |-> value]} ELSE cache

\* The record of an invocation of a tool.
Invoked(tool, key, ok, value) ==
    [call EXCEPT
        !.calls = @ + 1,
        !.returned =
            IF ok
            THEN @ \cup {[tool |-> tool, key |-> key, value |-> value,
                          rank |-> 1 + Cardinality({r \in @ :
                                        r.tool = tool /\ r.key = key})]}
            ELSE @,
        !.failed = IF ok THEN @ ELSE @ \cup {[tool |-> tool, key |-> key]}]

\* _get_stream_md5_cached behind get_stream_md5.
_get_stream_md5_cached(stream, ok) ==
    LET key == <<call.stat, stream>>
        hit == Cached(call.md5, key)
    IN  IF hit # {}
        THEN call' = [call EXCEPT
                 !.last = [tool |-> "ffmpeg", key |-> key, invoked |-> FALSE,
                           result |-> (CHOOSE e \in hit : TRUE).value]]
        ELSE /\ call.calls < MaxToolCalls
             /\ LET v == Md5Of(call.content, stream)
                IN  call' = [Invoked("ffmpeg", key, ok, v) EXCEPT
                        !.md5 = CacheStore(@, key, ok, v, "FFmpegProcessError"),
                        !.last = [tool |-> "ffmpeg", key |-> key,
                                  invoked |-> TRUE,
                                  result |-> IF ok THEN v
                                             ELSE "FFmpegProcessError"]]

GetStreamMd5 ==
    /\ pc = "cache"
    /\ \E stream \in 0..MaxCacheStream, ok \in BOOLEAN :
          _get_stream_md5_cached(stream, ok)
    /\ UNCHANGED <<orig, inVer, fsVars, runs, pc, exitCode, err, miCache,
                   sources, plan, histVars>>

\* _get_media_info_cached behind get_media_info.
_get_media_info_cached(ok) ==
    LET key == <<call.stat>>
        hit == Cached(call.info, key)
    IN  IF hit # {}
        THEN call' = [call EXCEPT
                 !.last = [tool |-> "ffprobe", key |-> key, invoked |-> FALSE,
                           result |-> (CHOOSE e \in hit : TRUE).value]]
        ELSE /\ call.calls < MaxToolCalls
             /\ LET v == InfoOf(call.content)
                IN  call' = [Invoked("ffprobe", key, ok, v) EXCEPT
                        !.info = CacheStore(@, key, ok, v, "RuntimeError"),
                        !.last = [tool |-> "ffprobe", key |-> key,
                                  invoked |-> TRUE,
                                  result |-> IF ok THEN v ELSE "RuntimeError"]]

GetMediaInfo ==
    /\ pc = "cache"
    /\ \E ok \in BOOLEAN : _get_media_info_cached(ok)
    /\ UNCHANGED <<orig, inVer, fsVars, runs, pc, exitCode, err, miCache,
                   sources, plan, histVars>>

\* The file is written: its bytes change, and its mtime or size with them, to
\* any other value.
ModifyFile ==
    /\ pc = "cache"
    /\ call.modified < MaxModify
    /\ \E st \in Stats \ {call.stat} :
          call' = [call EXCEPT !.stat = st,
                               !.content = call.modified + 1,
                               !.modified = @ + 1,
                               !.last = [tool |-> "none", key |-> <<>>,
                                         invoked |-> FALSE, result |-> "none"]]
    /\ UNCHANGED <<orig, inVer, fsVars, runs, pc, exitCode, err, miCache,
                   sources, plan, histVars>>

InitCache ==
    /\ \E st \in Stats :
        call = [op |-> "cache", stat |-> st, content |-> 0, modified |-> 0,
                md5 |-> {}, info |-> {}, returned |-> {}, failed |-> {},
                calls |-> 0,
                last |-> [tool |-> "none", key |-> <<>>, invoked |-> FALSE,
                          result |-> "none"]]
    /\ pc = "cache"
    /\ orig = <<>>
    /\ part = Absent
    /\ inVer = 0
    /\ temp = Absent
    /\ mp4 = Absent
    /\ runs = 1
    /\ exitCode = -1
    /\ err = "none"
    /\ miCache = {}
    /\ sources = <<>>
    /\ plan = <<>>
    /\ ffmpegCalls = 0
    /\ plannerCalls = 0
    /\ initExit = -1
    /\ repairExit = -1
    /\ verifyResult = "none"
    /\ plannerResult = "none"
    /\ reverifyResult = "none"
    /\ replaced = FALSE
    /\ hashed = {}
    /\ warned = FALSE

NextCache == GetStreamMd5 \/ GetMediaInfo \/ ModifyFile

SpecCache == InitCache /\ [][NextCache]_vars

\* ------------------------------------------------------------ VideoFile
\* The ways a file is named, in the working directory /w: rec.ts by a
\* relative path, with a leading dot, by its absolute path and through the
\* symbolic link /w/link.ts, and the first-pass file.
PathSpellings ==
    {"rec.ts", "./rec.ts", "/w/rec.ts", "/w/link.ts", "/w/rec.mp4.part"}

\* pathlib.Path(p): a path keeps its spelling but for the '.' components.
Path(p) == IF p = "./rec.ts" THEN "rec.ts" ELSE p

\* Path.resolve(): the absolute path with the symbolic links followed.
resolve(p) ==
    IF p \in {"rec.ts", "./rec.ts", "/w/rec.ts", "/w/link.ts"} THEN "/w/rec.ts"
    ELSE p

\* VideoFile(path=p): a frozen model with the one field path, a FilePath,
\* which is validated and not resolved; equality and hash are those of the
\* field.
VideoFile(p) == [path |-> Path(p)]

\* Stream sources of a repair, the video stream and an audio stream or two,
\* with their files named by any spellings.
SpelledSources(ps, kinds) ==
    [k \in DOMAIN ps |->
        [file |-> VideoFile(ps[k]), idx |-> k - 1,
         type |-> IF k = 1 THEN "video" ELSE "audio",
         kind |-> IF k = 1 THEN "COPIED" ELSE kinds[k - 1]]]

\* StreamSources.source_video_files
source_video_files(ss) == {ss[k].file : k \in DOMAIN ss}

VideoFileCall ==
    /\ pc = "vf_call"
    /\ LET ss == SpelledSources(call.paths, call.kinds)
       IN  call' = [call EXCEPT
               !.ss = ss,
               !.files = source_video_files(ss),
               !.out = StreamSourcesForAudioReEncoding(ss)]
    /\ pc' = "vf_returned"
    /\ UNCHANGED <<orig, inVer, fsVars, runs, exitCode, err, miCache, sources,
                   plan, histVars>>

InitVideoFile ==
    /\ \E n \in 2..3 :
       \E ps \in [1..n -> PathSpellings],
          kinds \in [1..(n - 1) -> {"COPIED", "CONVERTED"}] :
            call = [op |-> "VideoFile", paths |-> ps, kinds |-> kinds,
                    ss |-> <<>>, files |-> {}, out |-> "none"]
    /\ pc = "vf_call"
    /\ orig = <<>>
    /\ part = Absent
    /\ inVer = 0
    /\ temp = Absent
    /\ mp4 = Absent
    /\ runs = 1
    /\ exitCode = -1
    /\ err = "none"
    /\ miCache = {}
    /\ sources = <<>>
    /\ plan = <<>>
    /\ ffmpegCalls = 0
    /\ plannerCalls = 0
    /\ initExit = -1
    /\ repairExit = -1
    /\ verifyResult = "none"
    /\ plannerResult = "none"
    /\ reverifyResult = "none"
    /\ replaced = FALSE
    /\ hashed = {}
    /\ warned = FALSE

NextVideoFile == VideoFileCall

SpecVideoFile == InitVideoFile /\ [][NextVideoFile]_vars

\* ------------------------------------------------------------ the hasher
\* _get_stream_md5_async over _stream_stdout, step by step.  The decoded
\* stream is call.full chunks long; the process writes call.chunks of them and
\* call.lines lines on stderr and exits with call.rc.  call.read counts the
\* chunks fed into the MD5, call.logged the lines logged by the stderr task.
MaxChunks == 3
MaxStderrLines == 2

\* hashlib.md5 over the chunks read.
HexDigest(read) == <<"md5", read>>

\* A check that takes every exit status for success.
StatusIgnored(rc) == FALSE

\* if returncode != 0
ExitStatusFailed(rc) == rc # 0

\* asyncio.create_subprocess_exec: the process starts, or OSError is raised
\* again as FFmpegProcessError.
HasherStart ==
    /\ pc = "h_start"
    /\ \E started \in BOOLEAN :
          IF started
          THEN /\ pc' = "h_stream"
               /\ UNCHANGED call
          ELSE /\ pc' = "h_raised"
               /\ call' = [call EXCEPT !.error = "FFmpegProcessError",
                                       !.logDone = TRUE]
    /\ UNCHANGED <<orig, inVer, fsVars, runs, exitCode, err, miCache, sources,
                   plan, histVars>>

\* stdout_stream.read(1024) returned a chunk, which is yielded to the caller:
\* md5_hash.update(chunk).
HasherReadChunk ==
    /\ pc = "h_stream"
    /\ call.read < call.chunks
    /\ call' = [call EXCEPT !.read = @ + 1]
    /\ pc' = pc
    /\ UNCHANGED <<orig, inVer, fsVars, runs, exitCode, err, miCache, sources,
                   plan, histVars>>

\* read returned b'': the loop ends and the finally clause awaits log_task.
HasherEof ==
    /\ pc = "h_stream"
    /\ call.read = call.chunks
    /\ pc' = "h_await_log"
    /\ UNCHANGED call
    /\ UNCHANGED <<orig, inVer, fsVars, runs, exitCode, err, miCache, sources,
                   plan, histVars>>

\* log_stderr, the task that runs beside the loop: one line is logged.
HasherLogLine ==
    /\ pc \in {"h_stream", "h_await_log"}
    /\ call.logged < call.lines
    /\ call' = [call EXCEPT !.logged = @ + 1]
    /\ pc' = pc
    /\ UNCHANGED <<orig, inVer, fsVars, runs, exitCode, err, miCache, sources,
                   plan, histVars>>

\* readline returned b'': log_stderr ends.
HasherLogEof ==
    /\ pc \in {"h_stream", "h_await_log"}
    /\ call.logged = call.lines
    /\ ~call.logDone
    /\ call' = [call EXCEPT !.logDone = TRUE]
    /\ pc' = pc
    /\ UNCHANGED <<orig, inVer, fsVars, runs, exitCode, err, miCache, sources,
                   plan, histVars>>

\* await log_task returns.
HasherAwaitLog ==
    /\ pc = "h_await_log"
    /\ call.logDone
    /\ pc' = "h_wait"
    /\ UNCHANGED call
    /\ UNCHANGED <<orig, inVer, fsVars, runs, exitCode, err, miCache, sources,
                   plan, histVars>>

\* returncode = await process.wait(): a non-zero status raises
\* FFmpegProcessError out of the async for of _get_stream_md5_async; with 0
\* the generator ends and md5_hash.hexdigest() is returned.
HasherWait ==
    /\ pc = "h_wait"
    /\ IF ExitStatusFailed(call.rc)
       THEN /\ pc' = "h_raised"
            /\ call' = [call EXCEPT !.error = "FFmpegProcessError"]
       ELSE /\ pc' = "h_returned"
            /\ call' = [call EXCEPT !.digest = HexDigest(call.read)]
    /\ UNCHANGED <<orig, inVer, fsVars, runs, exitCode, err, miCache, sources,
                   plan, histVars>>

\* A process that exits with 0 has written the whole stream; one that fails
\* may have written any part of it.
InitHasher ==
    /\ \E full \in 1..MaxChunks, rc \in {0, 1}, lines \in 0..MaxStderrLines :
       \E chunks \in (IF rc = 0 THEN {full} ELSE 0..full) :
          call = [op |-> "_get_stream_md5_async", full |-> full,
                  chunks |-> chunks, rc |-> rc, lines |-> lines, read |-> 0,
                  logged |-> 0, logDone |-> FALSE, digest |-> <<>>,
                  error |-> "none"]
    /\ pc = "h_start"
    /\ orig = <<>>
    /\ part = Absent
    /\ inVer = 0
    /\ temp = Absent
    /\ mp4 = Absent
    /\ runs = 1
    /\ exitCode = -1
    /\ err = "none"
    /\ miCache = {}
    /\ sources = <<>>
    /\ plan = <<>>
    /\ ffmpegCalls = 0
    /\ plannerCalls = 0
    /\ initExit = -1
    /\ repairExit = -1
    /\ verifyResult = "none"
    /\ plannerResult = "none"
    /\ reverifyResult = "none"
    /\ replaced = FALSE
    /\ hashed = {}
    /\ warned = FALSE

NextHasher ==
    \/ HasherStart
    \/ HasherReadChunk
    \/ HasherEof
    \/ HasherLogLine
    \/ HasherLogEof
    \/ HasherAwaitLog
    \/ HasherWait

SpecHasher == InitHasher /\ [][NextHasher]_vars

\* ------------------------------------------------------------ properties
AudioCountsAgree ==
    /\ part.tag # "absent"
    /\ Len(StreamsOfType(orig, "audio")) = Len(StreamsOfType(part.streams, "audio"))

\* C1: when first-pass verification fails because the digest of a copied
\* stream differs from its source's, the run does not end with that error; the
\* repair planner is called exactly once.
C1_MismatchEntersRepair ==
    (verifyResult = "StreamIntegrityError" /\ AudioCountsAgree)
        => /\ err # "StreamIntegrityError"
           /\ plannerCalls <= 1
           /\ (pc = "exit" => plannerCalls = 1)

\* C2: when first-pass verification fails and the planner returns NONE, ts2mp4
\* returns without an error, without replacing the output path, which still
\* holds the first-pass file of this run.
C2_PlannerNoneIsDone ==
    (plannerResult = "NONE" /\ pc \in {"promote", "exit"})
        => /\ err = "none"
           /\ ~replaced
           /\ (pc = "promote" => part.tag = "first" /\ part.run = runs)

\* C3: the repair pass is attempted at most once per run: at most two
\* transcoder invocations, one planner call, and a failed re-verification ends
\* the run in failure with no further transcoder invocation.
C3_RepairAtMostOnce ==
    /\ ffmpegCalls <= 2
    /\ plannerCalls <= 1
    /\ (reverifyResult = "RuntimeError"
            => pc = "exit" /\ exitCode = 1 /\ err = "RuntimeError" /\ ffmpegCalls = 2)

C3_Witness ==
    /\ reverifyResult = "RuntimeError"
    /\ pc = "exit"
    /\ ffmpegCalls = 2
    /\ plannerCalls = 1

\* C4: the temporary repair output replaces the output path only after the
\* repair transcoder exited 0 and the re-verification of this run succeeded;
\* otherwise the output path is not replaced.
C4_ReplaceOnlyAfterVerifiedRepair ==
    replaced => (repairExit = 0 /\ reverifyResult = "ok")

\* C5: during a repair the output path is never absent: it holds the complete
\* first-pass file or the complete repaired file.
C5_OutputNeverAbsent ==
    /\ part.tag \in {"first", "repaired"}
    /\ (pc = "ar_raised" => part.tag = "first")

\* C6: no stream of an output file is hashed or compared in a run in which the
\* transcoder that wrote the file did not exit with status 0.
C6_VerifyAfterSuccess ==
    /\ ("part" \in hashed => initExit = 0)
    /\ ("temp" \in hashed => repairExit = 0)
    /\ (verifyResult # "none" => initExit = 0)
    /\ (reverifyResult # "none" => repairExit = 0)

C6_Witness ==
    /\ "part" \in hashed
    /\ "temp" \in hashed
    /\ initExit = 0
    /\ repairExit = 0

\* C7: a non-zero exit status of the transcoder, in either pass, ends the run
\* in failure with a RuntimeError: no further transcoder invocation, no entry
\* into the repair path in reaction to it, no replacement of the output path.
C7_NonZeroExitIsFatal ==
    /\ (initExit > 0
            => /\ pc = "exit" /\ exitCode = 1 /\ err = "RuntimeError"
               /\ ffmpegCalls = 1 /\ plannerCalls = 0 /\ ~replaced)
    /\ (repairExit > 0
            => /\ pc = "exit" /\ exitCode = 1 /\ err = "RuntimeError"
               /\ ffmpegCalls = 2 /\ plannerCalls = 1 /\ ~replaced)

C7_Witness ==
    /\ repairExit = 1
    /\ pc = "exit"
    /\ exitCode = 1
    /\ ffmpegCalls = 2

\* C8: an error of first-pass verification that is not an integrity mismatch
\* is never logged as a warning and followed by the repair path.
C8_NonIntegrityErrorIsFatal ==
    verifyResult \in {"RuntimeError", "FFmpegProcessError"}
        => (~warned /\ plannerCalls = 0)

\* C9: a run that converted the input exits with status 0 only if first-pass
\* verification or the re-verification after a repair passed.
C9_ExitZeroOnlyIfVerified ==
    (pc = "exit" /\ exitCode = 0 /\ initExit # -1)
        => (verifyResult = "ok" \/ reverifyResult = "ok")

CopiedDiffers == \E k \in DOMAIN call.cvf :
    call.cvf[k].kind = "COPIED" /\ ~call.cvf[k].same

WantedStreams == {k \in DOMAIN call.cvf :
    /\ call.cvf[k].type = call.stream_type
    /\ call.cvf[k].kind = "COPIED"
    /\ call.cvf[k].file = "src"}

C12_HashFailureIsMismatch ==
    (pc = "ci_returned" /\ (call.inOutcome # "ok" \/ call.outOutcome # "ok"))
        => call.out = "False"
\* C13: the planner returns NONE exactly when no entry of the plan it built is
\* CONVERTED; then the transcoder is not invoked and the requested output file
\* is not written.
C13_NoneIffNothingConverted ==
    /\ (plannerResult = "NONE"
          => /\ \A k \in DOMAIN plan : plan[k].kind # "CONVERTED"
             /\ repairExit = -1
             /\ ffmpegCalls = 1
             /\ (pc = "replace" => temp.run # runs))
    /\ (plannerResult = "PLAN"
          => \E k \in DOMAIN plan : plan[k].kind = "CONVERTED")

C13_Witness ==
    /\ plannerResult = "NONE"
    /\ pc = "replace"
    /\ \E k \in DOMAIN plan : plan[k].type = "audio"
ValidOriginal == {p \in DOMAIN call.o :
    call.o[p].type = "video" \/ (call.o[p].type = "audio" /\ call.o[p].channels > 0)}

RecordedAt(p) == {i \in DOMAIN call.ss : call.ss[i].idx = p - 1}

\* C14: the plan holds one entry per valid stream of the original, in index
\* order: COPIED from the encoded stream whose provenance records it when it
\* is video or its digest equals that stream's, CONVERTED from the original at
\* its own index when it is audio and the digests differ.
C14_RepairTargeting ==
    (pc = "pl_returned" /\ call.out.error = "none")
        => /\ Len(call.out.list) = Cardinality(ValidOriginal)
           /\ \A k \in DOMAIN call.out.list :
                \E p \in ValidOriginal :
                   /\ Cardinality({q \in ValidOriginal : q < p}) = k - 1
                   /\ \E i \in RecordedAt(p) :
                        IF call.o[p].type = "video"
                        THEN call.out.list[k] =
                               [file |-> "enc", idx |-> i - 1, type |-> "video",
                                kind |-> "COPIED"]
                        ELSE IF call.hashFailAt = p THEN TRUE
                        ELSE IF call.o[p].dg = call.enc[i].dg
                        THEN call.out.list[k] =
                               [file |-> "enc", idx |-> i - 1, type |-> "audio",
                                kind |-> "COPIED"]
                        ELSE call.out.list[k] =
                               [file |-> "orig", idx |-> p - 1, type |-> "audio",
                                kind |-> "CONVERTED"]

C14_Witness ==
    /\ pc = "pl_returned"
    /\ call.out.error = "none"
    /\ call.hashFailAt = 0
    /\ \E i \in DOMAIN call.ss : call.ss[i].idx # i - 1
    /\ \E k \in DOMAIN call.out.list :
          call.out.list[k].type = "audio" /\ call.out.list[k].kind = "COPIED"
    /\ \E k \in DOMAIN call.out.list : call.out.list[k].kind = "CONVERTED"

C16_MissingAudioIsReEncoded ==
    (/\ pc = "pl_returned"
     /\ \A p \in ValidOriginal : call.o[p].type = "video" => RecordedAt(p) # {})
        => /\ call.out.error = "none"
           /\ \A p \in ValidOriginal :
                (call.o[p].type = "audio" /\ RecordedAt(p) = {})
                    => \E k \in DOMAIN call.out.list :
                          call.out.list[k] =
                             [file |-> "orig", idx |-> p - 1, type |-> "audio",
                              kind |-> "CONVERTED"]
\* C17 as stated: the construction succeeds exactly when the indices given are
\* 0..n-1 in order.
C17_SucceedsIffInOrder ==
    pc = "mi_returned"
        => (call.out = "ok" <=> \A i \in DOMAIN call.v : call.v[i] = i - 1)

\* C17: the construction succeeds exactly when the indices given are each of
\* 0..n-1 once, in any order for a list, which is sorted by index first, and
\* in order otherwise; the streams of a constructed MediaInfo have the indices
\* 0..n-1 in order.
C17_IndexContiguity ==
    pc = "mi_returned"
        => /\ (call.out = "ok" <=>
                 IF call.isList
                 THEN {call.v[i] : i \in DOMAIN call.v} = 0..(Len(call.v) - 1)
                 ELSE \A i \in DOMAIN call.v : call.v[i] = i - 1)
           /\ (call.out = "ok"
                 => /\ Len(call.streams) = Len(call.v)
                    /\ \A i \in DOMAIN call.streams : call.streams[i] = i - 1)
           /\ call.out \in {"ok", "ValueError"}

C17_Witness ==
    /\ pc = "mi_returned"
    /\ call.isList
    /\ call.out = "ok"
    /\ \E i \in DOMAIN call.v : call.v[i] # i - 1

\* C18: a ConvertedVideoFile is constructed only with as many stream sources
\* as the file has probed streams; with another number the construction
\* raises.
C18_ProvenanceCardinality ==
    [][/\ (pc = "construct" /\ pc' = "verify"
              => Len(sources) = Len(part.streams))
       /\ (pc = "construct" /\ Len(sources) # Len(part.streams)
              => pc' = "exit" /\ exitCode' = 1 /\ err' \in {"ValueError", "RuntimeError"})
       /\ (pc = "repair_construct" /\ pc' = "reverify"
              => Len(plan) = Len(temp.streams))
       /\ (pc = "repair_construct" /\ Len(plan) # Len(temp.streams)
              => pc' = "exit" /\ exitCode' = 1 /\ err' \in {"ValueError", "RuntimeError"})
      ]_vars

C18_Witness ==
    /\ pc = "exit"
    /\ err = "ValueError"
    /\ repairExit = 0
    /\ reverifyResult = "none"
    /\ Len(plan) # Len(temp.streams)

VideoSources == {k \in DOMAIN call.ss : call.ss[k].type = "video"}

AudioSources == {k \in DOMAIN call.ss : call.ss[k].type = "audio"}

\* C19 as stated: without a video source the construction raises "At least
\* one video stream is required."; with a COPIED video source it raises "All
\* video streams must be converted.", whatever the other sources are.
C19_MessagesWhateverTheRest ==
    pc = "is_returned"
        => /\ (VideoSources = {}
                 => call.out = "At least one video stream is required.")
           /\ ((\E k \in VideoSources : call.ss[k].kind = "COPIED")
                 => call.out = "All video streams must be converted.")

\* C19: without a video source the construction raises "At least one video
\* stream is required."; with a COPIED video source it always raises, with
\* "All video streams must be converted." when there is an audio source and
\* with "At least one audio stream is required." when there is none.
C19_InitialPlanMessages ==
    pc = "is_returned"
        => /\ (VideoSources = {}
                 => call.out = "At least one video stream is required.")
           /\ ((\E k \in VideoSources : call.ss[k].kind = "COPIED")
                 => call.out = IF AudioSources # {}
                               THEN "All video streams must be converted."
                               ELSE "At least one audio stream is required.")

C19_Witness ==
    /\ pc = "is_returned"
    /\ call.out = "All video streams must be converted."
    /\ \E k \in VideoSources : call.ss[k].kind = "COPIED"
    /\ \E k \in DOMAIN call.ss : call.ss[k].type = "subtitle"

\* C20: a constructed initial-conversion StreamSources has a video and an
\* audio source, every video source CONVERTED, every audio source COPIED, no
\* source of another type, and all sources from one file.
C20_InitialConversionInvariants ==
    (pc = "is_returned" /\ call.out = "ok")
        => /\ VideoSources # {}
           /\ AudioSources # {}
           /\ \A k \in VideoSources : call.ss[k].kind = "CONVERTED"
           /\ \A k \in AudioSources : call.ss[k].kind = "COPIED"
           /\ \A k \in DOMAIN call.ss : call.ss[k].type \in {"video", "audio"}
           /\ \A j, k \in DOMAIN call.ss : call.ss[j].file = call.ss[k].file

C20_Witness ==
    /\ pc = "is_returned"
    /\ call.out = "ok"
    /\ Len(call.ss) > 2
CopiedSources == {k \in DOMAIN call.ss : call.ss[k].kind = "COPIED"}

ReEncodedSources == {k \in DOMAIN call.ss : call.ss[k].kind = "CONVERTED"}

CopiedFaithfully ==
    /\ part.tag = "first"
    /\ Len(part.streams) = Len(sources)
    /\ \A k \in DOMAIN sources :
          sources[k].type = "audio"
              => part.streams[k].dg = orig[sources[k].idx + 1].dg

\* C22: a zero-channel audio stream of the input is never mapped into the
\* initial command, and first-pass verification never fails with an integrity
\* error when every audio stream that was mapped has been copied with its
\* digest, whatever zero-channel streams the input holds.
C22_ZeroChannelExcluded ==
    /\ \A k \in DOMAIN sources :
          sources[k].type = "audio" => orig[sources[k].idx + 1].channels > 0
    /\ (pc = "exit" /\ verifyResult = "StreamIntegrityError") => ~CopiedFaithfully

\* C23: in the command of the initial pass and in the command of the repair
\* pass there are as many -map arguments as stream sources, the N-th of them
\* names the -i input that is the file of source N and the stream index of
\* source N, and no file is given twice as an input.
C23_MapOrder ==
    (pc = "ba_returned" /\ call.out.error = "none")
        => /\ Len(call.out.maps) = Len(call.ss)
           /\ \A i, j \in DOMAIN call.out.inputs :
                  call.out.inputs[i] = call.out.inputs[j] => i = j
           /\ \A n \in DOMAIN call.ss :
                  /\ call.out.maps[n][1] + 1 \in DOMAIN call.out.inputs
                  /\ call.out.inputs[call.out.maps[n][1] + 1] = call.ss[n].file
                  /\ call.out.maps[n][2] = call.ss[n].idx

C23_Witness ==
    /\ pc = "ba_returned"
    /\ call.op = "re_encode"
    /\ call.out.error = "none"
    /\ Len(call.out.inputs) = 2
    /\ call.ss[1].file = "orig"
    /\ Len(call.ss) > 2

\* C24: when an audio stream selected for re-encoding has a codec other than
\* aac the repair raises NotImplementedError in the step that plans it, with
\* no call of the transcoder and with the output files as they were; the
\* transcoder is started for the repair only with aac streams to re-encode.
C24_NonAacFailsFast ==
    [][/\ (pc = "repair_plan" /\ plannerResult' = "NotImplementedError"
              => /\ pc' = "exit" /\ exitCode' = 1 /\ err' = "NotImplementedError"
                 /\ ffmpegCalls' = ffmpegCalls
                 /\ part' = part /\ temp' = temp /\ mp4' = mp4)
       /\ (pc = "repair_plan" /\ pc' = "repair_transcode"
              => \A k \in DOMAIN plan' :
                    plan'[k].kind = "CONVERTED"
                        => orig[plan'[k].idx + 1].codec = "aac")
      ]_vars

C24_Witness ==
    /\ pc = "exit"
    /\ plannerResult = "NotImplementedError"
    /\ err = "NotImplementedError"
    /\ repairExit = -1
    /\ \E p \in DOMAIN orig : orig[p].codec = "mp2" /\ orig[p].channels > 0

\* The keys for which a tool has returned a value.
SucceededKeys(tool) == {r.key : r \in {q \in call.returned : q.tool = tool}}

\* C25: for both caches no key has two successful invocations of the tool; a
\* lookup with a key that has a successful invocation returns the value of
\* that invocation without a new one; a lookup with a key that has none, as
\* after the mtime or the size changed to a pair not looked up before, invokes
\* the tool.
C25_OncePerKey ==
    [][/\ \A r \in call'.returned : r.rank = 1
       /\ \A tool \in {"ffmpeg", "ffprobe"} :
            call'.last.tool = tool
                => IF call'.last.key \in SucceededKeys(tool)
                   THEN /\ ~call'.last.invoked
                        /\ call'.calls = call.calls
                        /\ \E r \in call.returned :
                              /\ r.tool = tool
                              /\ r.key = call'.last.key
                              /\ r.value = call'.last.result
                   ELSE /\ call'.last.invoked
                        /\ call'.calls = call.calls + 1
      ]_vars

C25_Witness ==
    /\ pc = "cache"
    /\ call.modified = 2
    /\ ~call.last.invoked
    /\ call.last.tool = "ffmpeg"
    /\ \E q, r \in call.returned :
          /\ q.tool = "ffmpeg" /\ r.tool = "ffmpeg"
          /\ q.key[1] # r.key[1]
          /\ q.key[2] = r.key[2]

\* C29: a failed hash computation stores nothing: every value in the hash
\* cache is the digest a successful invocation returned for its key, and a
\* lookup whose key has only failed invocations invokes the hasher again.
C29_FailureNotCached ==
    /\ pc = "cache"
         => \A e \in call.md5 :
               /\ e.value # "FFmpegProcessError"
               /\ \E r \in call.returned :
                     r.tool = "ffmpeg" /\ r.key = e.key /\ r.value = e.value
    /\ (pc = "cache" /\ call.last.tool = "ffmpeg"
          /\ call.last.key \notin SucceededKeys("ffmpeg"))
         => /\ call.last.invoked
            /\ call.last.result = "FFmpegProcessError"

C29_Witness ==
    /\ pc = "cache"
    /\ call.last.tool = "ffmpeg"
    /\ call.last.invoked
    /\ call.last.result # "FFmpegProcessError"
    /\ \E f \in call.failed : f.tool = "ffmpeg" /\ f.key = call.last.key

C27_EqualIffSameResolved ==
    pc = "vf_returned"
        => /\ \A j, k \in DOMAIN call.paths :
                 (VideoFile(call.paths[j]) = VideoFile(call.paths[k]))
                     <=> (resolve(call.paths[j]) = resolve(call.paths[k]))
           /\ Cardinality(call.files)
                  = Cardinality({resolve(call.paths[k]) : k \in DOMAIN call.paths})
           /\ (\E j, k \in DOMAIN call.ss :
                  /\ call.ss[j].kind = "CONVERTED" /\ call.ss[k].kind = "COPIED"
                  /\ resolve(call.paths[j]) = resolve(call.paths[k]))
                 => call.out # "ok"

\* C28: the final output changes only by the promotion of the .part file,
\* from absent, at the end of a run in which ts2mp4 returned, and that run
\* exits 0; so a run that ends in failure, which a run started with the final
\* output present never does, leaves the final output absent.
C28_OutputOnlyByPromotion ==
    /\ [](pc = "exit" /\ exitCode # 0 => mp4.tag = "absent")
    /\ [][mp4' # mp4
            => /\ pc = "promote"
               /\ mp4.tag = "absent"
               /\ mp4' = part
               /\ pc' = "exit" /\ exitCode' = 0]_vars

C28_Witness ==
    /\ pc = "exit"
    /\ exitCode = 1
    /\ runs = 2
    /\ part.tag = "first"
    /\ initExit = 0
    /\ mp4.tag = "absent"

\* C30: the hasher's exit status is read only after every chunk of its
\* output was consumed and the stderr task ended; a digest is returned only
\* for a process that exited with 0, and is then the digest of the whole
\* stream; a process that exited non-zero ends in an error with no digest.
C30_NoDigestFromFailedHasher ==
    /\ pc \in {"h_wait", "h_returned"}
         => call.read = call.chunks /\ call.logged = call.lines /\ call.logDone
    /\ pc = "h_returned"
         => /\ call.rc = 0
            /\ call.digest = HexDigest(call.full)
            /\ call.error = "none"
    /\ pc = "h_raised"
         => call.digest = <<>> /\ call.error = "FFmpegProcessError"
    /\ call.op = "_get_stream_md5_async" /\ call.digest # <<>>
         => pc = "h_returned"

C30_Witness ==
    /\ pc = "h_raised"
    /\ call.rc = 1
    /\ call.read = call.chunks
    /\ call.read > 0
    /\ call.chunks < call.full
    /\ call.logged = 2
    /\ call.logDone

====
